---- MODULE Spec2Model ----
(***************************************************************************)
(* EsterAi desktop generator: the generation job runner.                   *)
(*                                                                         *)
(* One interactive (GUI) thread owns the two tabs, the window's status bar *)
(* and the event queue; every accepted start_generation creates a worker   *)
(* thread (TextGenerationWorker / ImageGenerationWorker) whose signals are *)
(* posted to the GUI thread's queue and handled there in FIFO order.       *)
(***************************************************************************)
EXTENDS Integers, Sequences, FiniteSets, TLC

\* ------------------------------------------------------------------ bounds
MaxWorkers == 2
MaxCallbacks == 2

\* --------------------------------------------------------- program values
InitialProgress == 10
FinalProgress == 100
HideSentinel == -1

Tabs == {"text", "image"}
Slots == 1..MaxWorkers

\* raw contents of the prompt control; strip() is applied at submission
PromptTexts == {"  ", " a "}
Outputs == {"o1", "o2"}
EngineErrors == {"engine failure"}
NotLoadedMessage == "Model is not loaded"
Models == {"Demo Mode", "Other"}
\* progress fractions handed to the callback, in thousandths
Fractions == {-500, 55, 1500}

\* final fraction handed to the callback by generate(), in thousandths
FinalFraction == 1000

\* ranges of the parameter controls
LengthMin == 50
LengthMax == 2000
LengthDefault == 500
TemperatureSliderMin == 1
TemperatureSliderMax == 20
TemperatureSliderDefault == 7
SizeMin == 256
SizeMax == 1024
SizeDefault == 512
SizeHD == 768
StepsMin == 10
StepsMax == 100
StepsDefault == 50
GuidanceSliderMin == 1
GuidanceSliderMax == 20
GuidanceSliderDefault == 7
\* the text guidance_value_label is created with ("7.5"), in tenths
GuidanceLabelDefault == 75

\* entries of the style combo boxes (stand-ins for the labels of the source:
\* "Neutral" for "Нейтральный", "Unrestricted" for "Без ограничений",
\* "Creative" for "Креативный", "Realistic" for "Реалистичный", "Artistic"
\* for "Художественный", "Anime" for "Аниме", "Photorealism" for
\* "Фотореализм", "Concept art" for "Концепт-арт", "Portrait" for "Портрет",
\* "Landscape" for "Пейзаж")
TextStyles == {"Neutral", "Creative", "Unrestricted"}
ImageStyles == {"Realistic", "Artistic", "Anime", "Photorealism", "Concept art",
                "Portrait", "Landscape", "Unrestricted"}
StyleOptions(t) == IF t = "text" THEN TextStyles ELSE ImageStyles

\* entries of the size combo box of the image tab
SizePresets == {"512x512", "768x768", "512x768", "768x512", "1024x1024", "custom"}

\* values a user or a caller hands to setValue of a spin box or slider
LengthInputs == {LengthMin - 1, LengthMax + 1}
TemperatureInputs == {TemperatureSliderMin - 1, TemperatureSliderMax + 1}
SizeInputs == {SizeMin - 1, SizeMax + 1}
StepsInputs == {StepsMin - 1, StepsMax + 1}
GuidanceInputs == {GuidanceSliderMin - 1, GuidanceSliderMax + 1}

StatusGenerating == "generating"
StatusDone == "done"
StatusStopping == "stopping"
StatusLoading == "loading"
StatusLoaded == "loaded"
StatusReady == "ready"

\* texts of model_status_label (stand-ins for "Demo режим активен", "Модель
\* загружена", "Ошибка загрузки", "Модель не загружена")
LabelDemoActive == "demo mode active"
LabelLoaded == "model loaded"
LabelLoadError == "load error"
LabelNotLoaded == "model not loaded"

VARIABLES current_tab, controls, closed, input_text, pipeline, current_model, load_result, loading,
          model_status_label, generation_worker, generate_button, stop_button, output,
          worker, queue,
          status_label, progress_visible, progress_value

vars == <<current_tab, controls, closed, input_text, pipeline, current_model, load_result, loading,
          model_status_label, generation_worker, generate_button, stop_button, output,
          worker, queue,
          status_label, progress_visible, progress_value>>

tabVars == <<current_tab, controls, closed, input_text, pipeline, current_model, load_result, loading,
             model_status_label, generation_worker, generate_button, stop_button, output>>
\* the generator of each tab and the load in progress
sessionVars == <<pipeline, current_model, load_result, loading>>

\* no load_model call is in progress in the interactive thread
NoLoad == [tab |-> "none", name |-> "none"]
shellVars == <<status_label, progress_visible, progress_value>>

\* ---------------------------------------------------------------- helpers
\* str.strip() on the prompt texts of the model
strip_nothing(s) == s
strip(s) ==
    CASE s = "  " -> ""
      [] s = " a " -> "a"
      [] OTHER -> s

\* int(progress * 100) for a fraction given in thousandths: truncation
\* towards zero
percent(p) == IF p >= 0 THEN p \div 10 ELSE -((-p) \div 10)

ResultSignal(t) == IF t = "text" THEN "text_generated" ELSE "image_generated"

Event(sig, val, site) == [sig |-> sig, val |-> val, site |-> site]

\* no settings, no generate call yet
NoSettings == [style |-> "none"]
NoCall == [prompt |-> "none", settings |-> NoSettings]

\* settings: the dict handed to the worker; called: the arguments of the
\* generate call; full_prompt: what generate hands to the engine; ngen: calls
\* of generate; cb_last: fraction of the last callback invocation (-1: none)
BlankWorker ==
    [pc |-> "none", stop |-> FALSE, stop_pc |-> "none",
     prompt |-> "", settings |-> NoSettings, called |-> NoCall, full_prompt |-> <<>>,
     ngen |-> 0, ret |-> "none", exc |-> "none",
     emitted |-> <<>>, seen |-> <<>>, ncb |-> 0, cb_last |-> -1]

\* positions inside run(), from QThread.start() to the finished emission
RunPcs == {"start", "checkpoint", "gen_enter", "gen_pipe", "gen_cb",
           "check_result", "emit_result", "except", "finally"}

\* QThread.isRunning(): true from start() until the thread has been torn down
isRunning(w) == w.pc \notin {"none", "ended"}

is_loaded_always(t) == TRUE
is_loaded(t) == pipeline[t] # "none"

Pending(q, t, s) == \E i \in 1..Len(q) : q[i].tab = t /\ q[i].slot = s

\* The worker objects of a tab are kept newest first: slot 1 holds the worker
\* the tab references, the following slots the workers it has replaced.
\* A worker object that is no longer referenced by its tab and none of whose
\* events is pending is destroyed once its thread has ended; until then only
\* its thread is left of it (the record of its job is dropped with the
\* reference).
Reap(wk, gw, q) ==
    [t \in Tabs |-> [s \in Slots |->
        IF gw[t] # s /\ ~Pending(q, t, s)
        THEN IF wk[t][s].pc = "ended" THEN BlankWorker
             ELSE IF wk[t][s].pc = "exiting" THEN [BlankWorker EXCEPT !.pc = "exiting"]
             ELSE wk[t][s]
        ELSE wk[t][s]]]

\* the slot a worker moves to when the destroyed workers before it are
\* removed
Rank(wt, s) == IF s = 1 THEN 1
               ELSE 1 + Cardinality({x \in 2..s : wt[x].pc # "none"})

Compact(wk) ==
    [t \in Tabs |-> [k \in Slots |->
        IF k = 1 THEN wk[t][1]
        ELSE IF \E s \in 2..MaxWorkers : wk[t][s].pc # "none" /\ Rank(wk[t], s) = k
             THEN wk[t][CHOOSE s \in 2..MaxWorkers :
                           wk[t][s].pc # "none" /\ Rank(wk[t], s) = k]
             ELSE BlankWorker]]

Renumber(wk, q) ==
    [i \in 1..Len(q) |-> [q[i] EXCEPT !.slot = Rank(wk[q[i].tab], @)]]

\* worker table and queue after the destroyed workers have been removed
Norm(wk, gw, q) ==
    LET r == Reap(wk, gw, q) IN [worker |-> Compact(r), queue |-> Renumber(r, q)]

\* the worker table and the queue once a new worker has been put in front
Shift(wk, q, t, new) ==
    [worker |-> [wk EXCEPT ![t] = [s \in Slots |-> IF s = 1 THEN new ELSE wk[t][s - 1]]],
     queue |-> [i \in 1..Len(q) |->
                  IF q[i].tab = t THEN [q[i] EXCEPT !.slot = @ + 1] ELSE q[i]]]

\* MainWindow.update_progress
update_progress_visible_always(value) == TRUE
update_progress_visible(value) == value >= 0
update_progress_value(value) == IF value < 0 THEN progress_value ELSE value

\* QSpinBox.setValue / QSlider.setValue keep the value inside the range
setValue(v, lo, hi) == IF v < lo THEN lo ELSE IF v > hi THEN hi ELSE v

\* the parameter controls as the tabs create them
DefaultControls ==
    [text |-> [style |-> "Neutral", length |-> LengthDefault,
               temperature |-> TemperatureSliderDefault],
     image |-> [style |-> "Realistic", width |-> SizeDefault, height |-> SizeDefault,
                steps |-> StepsDefault, guidance |-> GuidanceSliderDefault,
                guidance_value_label |-> GuidanceLabelDefault]]

\* the settings dict start_generation builds from the controls; temperature
\* (slider / 10.0) and guidance_scale (slider / 2.0) are kept in tenths
settings_raw_slider(t) ==
    LET c == controls[t] IN
    IF t = "text"
    THEN [max_length |-> c.length, temperature |-> c.temperature * 10, style |-> c.style]
    ELSE [width |-> c.width, height |-> c.height, steps |-> c.steps,
          guidance_scale |-> c.guidance * 10, style |-> c.style]
settings(t) ==
    LET c == controls[t] IN
    IF t = "text"
    THEN [max_length |-> c.length, temperature |-> c.temperature, style |-> c.style]
    ELSE [width |-> c.width, height |-> c.height, steps |-> c.steps,
          guidance_scale |-> c.guidance * 5, style |-> c.style]

Init ==
    /\ current_tab \in Tabs
    /\ controls = DefaultControls
    /\ closed = FALSE
    /\ input_text = [t \in Tabs |-> ""]
    /\ pipeline \in [Tabs -> {"none", "Demo Mode"}]
    /\ current_model = pipeline
    /\ load_result = [t \in Tabs |-> IF pipeline[t] = "none" THEN "false" ELSE "true"]
    /\ loading = NoLoad
    /\ model_status_label = [t \in Tabs |-> LabelDemoActive]
    /\ generation_worker = [t \in Tabs |-> 0]
    /\ generate_button = [t \in Tabs |-> TRUE]
    /\ stop_button = [t \in Tabs |-> FALSE]
    /\ output = [t \in Tabs |-> "none"]
    /\ worker = [t \in Tabs |-> [s \in Slots |-> BlankWorker]]
    /\ queue = <<>>
    /\ status_label = StatusReady
    /\ progress_visible = FALSE
    /\ progress_value = 0


\* =================================================== interactive thread
\* the user edits the prompt control
EditPrompt(t, txt) ==
    /\ txt # input_text[t]
    /\ input_text' = [input_text EXCEPT ![t] = txt]
    /\ UNCHANGED <<current_tab, controls, closed, model_status_label, generation_worker,
                   generate_button, stop_button, output, worker, queue>>
    /\ UNCHANGED sessionVars
    /\ UNCHANGED shellVars

\* a parameter control of tab t takes a new value; nothing else changes
ControlChange(t, c) ==
    /\ controls' = [controls EXCEPT ![t] = c]
    /\ UNCHANGED <<current_tab, closed, input_text, model_status_label, generation_worker,
                   generate_button, stop_button, output, worker, queue>>
    /\ UNCHANGED sessionVars
    /\ UNCHANGED shellVars

\* the user picks an entry of style_combo
style_combo_select(t, style) ==
    /\ style \in StyleOptions(t)
    /\ ControlChange(t, [controls[t] EXCEPT !.style = style])

\* text tab: length_spinbox (range 50..2000), temperature_slider (1..20)
length_spinbox_setValue(v) ==
    ControlChange("text", [controls["text"] EXCEPT
                              !.length = setValue(v, LengthMin, LengthMax)])
temperature_slider_setValue(v) ==
    ControlChange("text", [controls["text"] EXCEPT
                              !.temperature = setValue(v, TemperatureSliderMin,
                                                       TemperatureSliderMax)])

\* guidance_slider.valueChanged -> guidance_value_label.setText(f"{v/2:.1f}"):
\* the text shown for slider value v, in tenths
guidance_value_text(v) == v * 5

\* image tab: width_spinbox, height_spinbox (256..1024), steps_slider
\* (10..100), guidance_slider (1..20); valueChanged is emitted, and the
\* guidance text set, only when the value of the slider changes
image_controls(style, width, height, steps, guidance) ==
    LET g == setValue(guidance, GuidanceSliderMin, GuidanceSliderMax) IN
    [style |-> style,
     width |-> setValue(width, SizeMin, SizeMax),
     height |-> setValue(height, SizeMin, SizeMax),
     steps |-> setValue(steps, StepsMin, StepsMax),
     guidance |-> g,
     guidance_value_label |-> IF g # controls["image"].guidance
                              THEN guidance_value_text(g)
                              ELSE controls["image"].guidance_value_label]
width_spinbox_setValue(v) ==
    LET c == controls["image"] IN
    ControlChange("image", image_controls(c.style, v, c.height, c.steps, c.guidance))
height_spinbox_setValue(v) ==
    LET c == controls["image"] IN
    ControlChange("image", image_controls(c.style, c.width, v, c.steps, c.guidance))
steps_slider_setValue(v) ==
    LET c == controls["image"] IN
    ControlChange("image", image_controls(c.style, c.width, c.height, v, c.guidance))
guidance_slider_setValue(v) ==
    LET c == controls["image"] IN
    ControlChange("image", image_controls(c.style, c.width, c.height, c.steps, v))

\* ImageGenerationTab.on_size_preset_changed
on_size_preset_changed(preset) ==
    LET c == controls["image"]
        w == CASE preset = "512x512" -> SizeDefault
               [] preset = "768x768" -> SizeHD
               [] preset = "512x768" -> SizeDefault
               [] preset = "768x512" -> SizeHD
               [] preset = "1024x1024" -> SizeMax
               [] OTHER -> c.width
        h == CASE preset = "512x512" -> SizeDefault
               [] preset = "768x768" -> SizeHD
               [] preset = "512x768" -> SizeHD
               [] preset = "768x512" -> SizeDefault
               [] preset = "1024x1024" -> SizeMax
               [] OTHER -> c.height IN
    ControlChange("image", image_controls(c.style, w, h, c.steps, c.guidance))

\* ImageGenerationTab.apply_*_preset
apply_landscape_preset ==
    LET c == controls["image"] IN
    ControlChange("image", image_controls("Landscape", 768, 512, c.steps, c.guidance))
apply_portrait_preset ==
    LET c == controls["image"] IN
    ControlChange("image", image_controls("Portrait", 512, 768, c.steps, c.guidance))
apply_art_preset ==
    LET c == controls["image"] IN
    ControlChange("image", image_controls("Artistic", c.width, c.height, 75, 15))
apply_photo_preset ==
    LET c == controls["image"] IN
    ControlChange("image", image_controls("Photorealism", c.width, c.height, 60, 12))
apply_anime_preset ==
    LET c == controls["image"] IN
    ControlChange("image", image_controls("Anime", c.width, c.height, 50, 10))
apply_concept_preset ==
    LET c == controls["image"] IN
    ControlChange("image", image_controls("Concept art", c.width, c.height, 80, 14))

\* state of the generate / stop controls set by start_generation
start_buttons_keep_generate == [generate |-> TRUE, stop |-> TRUE]
start_buttons == [generate |-> FALSE, stop |-> TRUE]

\* the worker object built by start_generation
NewWorker(prompt, set) ==
    [BlankWorker EXCEPT !.pc = "start", !.prompt = prompt, !.settings = set]

\* TextGenerationTab.start_generation / ImageGenerationTab.start_generation
start_generation(t) ==
    LET prompt == strip(input_text[t]) IN
    /\ UNCHANGED <<current_tab, controls, closed, input_text, model_status_label, output>>
    /\ UNCHANGED sessionVars
    /\ UNCHANGED shellVars
    /\ IF prompt = ""
       THEN \* warning dialog, return
            UNCHANGED <<generation_worker, generate_button, stop_button, worker, queue>>
       ELSE IF ~is_loaded(t)
       THEN \* warning dialog, return
            UNCHANGED <<generation_worker, generate_button, stop_button, worker, queue>>
       ELSE /\ worker[t][MaxWorkers].pc = "none"
            /\ generation_worker' = [generation_worker EXCEPT ![t] = 1]
            /\ LET sh == Shift(worker, queue, t, NewWorker(prompt, settings(t)))
                   n == Norm(sh.worker, generation_worker', sh.queue) IN
               /\ worker' = n.worker
               /\ queue' = n.queue
            /\ generate_button' = [generate_button EXCEPT ![t] = start_buttons.generate]
            /\ stop_button' = [stop_button EXCEPT ![t] = start_buttons.stop]

\* generate_button.clicked -> start_generation; a disabled button emits no click
ClickGenerate(t) ==
    /\ generate_button[t]
    /\ start_generation(t)

\* start_generation invoked as a method, whatever the state of the controls
CallStartGeneration(t) ==
    /\ ~generate_button[t]
    /\ start_generation(t)

\* TextGenerationWorker.stop, with the position of the worker recorded the
\* first time it is called
stop_and_wait(w) == [w EXCEPT !.stop = TRUE,
                              !.stop_pc = IF w.stop THEN w.stop_pc ELSE w.pc,
                              !.pc = "ended"]
stop_toggle(w) == [w EXCEPT !.stop = ~w.stop,
                            !.stop_pc = IF w.stop THEN w.stop_pc ELSE w.pc]
stop(w) == [w EXCEPT !.stop = TRUE,
                     !.stop_pc = IF w.stop THEN w.stop_pc ELSE w.pc]

\* TextGenerationTab.stop_generation / ImageGenerationTab.stop_generation
stop_generation(t) ==
    LET s == generation_worker[t] IN
    /\ UNCHANGED <<tabVars, queue, progress_visible, progress_value>>
    /\ IF s # 0 /\ isRunning(worker[t][s])
       THEN /\ worker' = [worker EXCEPT ![t][s] = stop(worker[t][s])]
            /\ status_label' = StatusStopping
       ELSE UNCHANGED <<worker, status_label>>

\* has_unsaved_changes(): _unsaved_changes is set by every change of the
\* prompt and by every delivered result
has_unsaved_changes(t) == input_text[t] # "" \/ output[t] # "none"

\* stop_generation of tab t sets a stop flag
Stops(t) == generation_worker[t] # 0 /\ isRunning(worker[t][generation_worker[t]])

\* the workers after stop_generation of tab t
Stopped_text_only(wk, t) ==
    IF t = "text" /\ Stops(t) THEN [wk EXCEPT ![t][generation_worker[t]] = stop(@)] ELSE wk
Stopped(wk, t) ==
    IF Stops(t) THEN [wk EXCEPT ![t][generation_worker[t]] = stop(@)] ELSE wk

\* MainWindow.closeEvent; reply is the answer to the unsaved-changes question
closeEvent(reply) ==
    IF (\E t \in Tabs : has_unsaved_changes(t)) /\ reply = "No"
    THEN \* event.ignore()
         UNCHANGED vars
    ELSE /\ worker' = Stopped(Stopped(worker, "text"), "image")
         /\ status_label' = IF Stops("text") \/ Stops("image")
                             THEN StatusStopping ELSE status_label
         /\ closed' = TRUE
         /\ UNCHANGED <<current_tab, controls, input_text, model_status_label,
                        generation_worker, generate_button, stop_button, output, queue,
                        progress_visible, progress_value>>
         /\ UNCHANGED sessionVars

\* stop_button.clicked -> stop_generation
ClickStop(t) ==
    /\ stop_button[t]
    /\ stop_generation(t)

\* TextGenerator.load_model / ImageGenerator.load_model: the handle and the
\* recorded name once the acquisition of the model has succeeded (ok) or
\* failed, the value returned, and whether the call raised instead
generator_load_model_keeps_old(name, ok) ==
    IF ok THEN [pipeline |-> name, current_model |-> name, ret |-> TRUE, raised |-> FALSE]
          ELSE [pipeline |-> pipeline[loading.tab],
                current_model |-> current_model[loading.tab],
                ret |-> FALSE, raised |-> FALSE]
generator_load_model_raises(name, ok) ==
    IF ok THEN [pipeline |-> name, current_model |-> name, ret |-> TRUE, raised |-> FALSE]
          ELSE [pipeline |-> "none", current_model |-> "none", ret |-> FALSE, raised |-> TRUE]
generator_load_model_keeps_name(name, ok) ==
    IF ok THEN [pipeline |-> name, current_model |-> name, ret |-> TRUE, raised |-> FALSE]
          ELSE [pipeline |-> "none", current_model |-> current_model[loading.tab],
                ret |-> FALSE, raised |-> FALSE]
generator_load_model(name, ok) ==
    IF ok THEN [pipeline |-> name, current_model |-> name, ret |-> TRUE, raised |-> FALSE]
          ELSE [pipeline |-> "none", current_model |-> "none", ret |-> FALSE, raised |-> FALSE]

\* what the caller of load_model got from it
LoadResult(r) == IF r.raised THEN "raised" ELSE IF r.ret THEN "true" ELSE "false"

\* TextGenerationTab.load_model / ImageGenerationTab.load_model, up to the
\* call of generator.load_model: the status is published and the interactive
\* thread stays inside the call while the model is acquired; the handle the
\* generator held before is still assigned
load_model_begin(t, name) ==
    /\ loading = NoLoad
    /\ loading' = [tab |-> t, name |-> name]
    /\ status_label' = StatusLoading
    /\ UNCHANGED <<current_tab, controls, closed, input_text, pipeline, current_model, load_result,
                   model_status_label, generation_worker, generate_button, stop_button, output,
                   worker, queue, progress_visible, progress_value>>

\* load_model of the tab: the text model_status_label gets for the value
\* generator.load_model returned
load_model_label(success) == IF success THEN LabelLoaded ELSE LabelLoadError

\* generator.load_model returns to the tab's load_model, which sets the model
\* status and publishes the success status
load_model_end(ok) ==
    /\ loading # NoLoad
    /\ LET t == loading.tab
           r == generator_load_model(loading.name, ok) IN
       /\ pipeline' = [pipeline EXCEPT ![t] = r.pipeline]
       /\ current_model' = [current_model EXCEPT ![t] = r.current_model]
       /\ load_result' = [load_result EXCEPT ![t] = LoadResult(r)]
       /\ status_label' = IF r.ret /\ ~r.raised THEN StatusLoaded ELSE status_label
       /\ model_status_label' =
              IF r.raised THEN model_status_label
              ELSE [model_status_label EXCEPT ![t] = load_model_label(r.ret)]
    /\ loading' = NoLoad
    /\ UNCHANGED <<current_tab, controls, closed, input_text, generation_worker, generate_button,
                   stop_button, output, worker, queue, progress_visible, progress_value>>

\* on_model_changed: model_combo.currentTextChanged, text is the entry now
\* selected
on_model_changed(t, text) ==
    /\ model_status_label' =
           [model_status_label EXCEPT ![t] = IF text # "Demo Mode" THEN LabelNotLoaded ELSE @]
    /\ UNCHANGED <<current_tab, controls, closed, input_text, generation_worker,
                   generate_button, stop_button, output, worker, queue>>
    /\ UNCHANGED sessionVars
    /\ UNCHANGED shellVars

\* ------------------------------------------ delivery of queued signals
Head1 == queue[1]
HeadIs(sig) == queue # <<>> /\ Head1.ev.sig = sig

\* the head event leaves the queue and is recorded, with the events the
\* handler publishes itself, as seen by the observers of its job
Handled(extra) ==
    LET h == Head1
        n == Norm([worker EXCEPT ![h.tab][h.slot].seen = @ \o (<<h.ev>> \o extra)],
                  generation_worker, Tail(queue)) IN
    /\ worker' = n.worker
    /\ queue' = n.queue

\* worker.progress_changed -> tab.progress_changed -> MainWindow.update_progress
update_progress ==
    /\ HeadIs("progress_changed")
    /\ Handled(<<>>)
    /\ progress_visible' = update_progress_visible(Head1.ev.val)
    /\ progress_value' = update_progress_value(Head1.ev.val)
    /\ UNCHANGED <<tabVars, status_label>>

\* worker.status_changed -> tab.status_changed -> MainWindow.update_status
update_status ==
    /\ HeadIs("status_changed")
    /\ Handled(<<>>)
    /\ status_label' = Head1.ev.val
    /\ UNCHANGED <<tabVars, progress_visible, progress_value>>

\* TextGenerationTab.on_text_generated / ImageGenerationTab.on_image_generated
on_text_generated ==
    /\ queue # <<>>
    /\ Head1.ev.sig = ResultSignal(Head1.tab)
    /\ Handled(<<>>)
    /\ output' = [output EXCEPT ![Head1.tab] = Head1.ev.val]
    /\ UNCHANGED <<current_tab, controls, closed, input_text, model_status_label,
                   generation_worker, generate_button, stop_button>>
    /\ UNCHANGED sessionVars
    /\ UNCHANGED shellVars

\* on_generation_error: the error dialog
on_generation_error ==
    /\ HeadIs("error_occurred")
    /\ Handled(<<>>)
    /\ UNCHANGED tabVars
    /\ UNCHANGED shellVars

\* state of the generate / stop controls set by on_generation_finished
finished_buttons_keep_disabled == [generate |-> FALSE, stop |-> FALSE]
finished_buttons_keep_stop == [generate |-> TRUE, stop |-> TRUE]
finished_buttons == [generate |-> TRUE, stop |-> FALSE]

\* on_generation_finished: controls reset, hide sentinel published
finished_events_none == <<>>
finished_events == <<Event("progress_changed", HideSentinel, "tab")>>

on_generation_finished ==
    /\ HeadIs("finished")
    /\ Handled(finished_events)
    /\ generate_button' = [generate_button EXCEPT ![Head1.tab] = finished_buttons.generate]
    /\ stop_button' = [stop_button EXCEPT ![Head1.tab] = finished_buttons.stop]
    /\ progress_visible' = update_progress_visible(HideSentinel)
    /\ progress_value' = update_progress_value(HideSentinel)
    /\ UNCHANGED <<current_tab, controls, closed, input_text, model_status_label,
                   generation_worker, output, status_label>>
    /\ UNCHANGED sessionVars


\* ========================================================= worker thread
\* one statement of run(): the worker moves to pc, having emitted evs
Advance(t, s, w, evs) ==
    /\ worker' = [worker EXCEPT ![t][s] = [w EXCEPT !.emitted = @ \o evs]]
    /\ queue' = queue \o [i \in 1..Len(evs) |-> [tab |-> t, slot |-> s, ev |-> evs[i]]]
    /\ UNCHANGED tabVars
    /\ UNCHANGED shellVars

At(t, s, pc) == worker[t][s].pc = pc

\* run(): self.status_changed.emit("Генерация ..."), then
\* self.progress_changed.emit(10)
run_begin(t, s) ==
    /\ At(t, s, "start")
    /\ Advance(t, s, [worker[t][s] EXCEPT !.pc = "checkpoint"],
               <<Event("status_changed", StatusGenerating, "run"),
                 Event("progress_changed", InitialProgress, "init")>>)

\* run(): if self._stop_requested: return
checkpoint_ignores_stop(stopRequested) == "gen_enter"
checkpoint_skips_generate(stopRequested) == "finally"
checkpoint(stopRequested) == IF stopRequested THEN "finally" ELSE "gen_enter"

\* run(): the prompt argument of self.generator.generate(...)
request_prompt_live(t, w) == strip(input_text[t])
request_prompt(t, w) == w.prompt

\* run(): the arguments with which generate is called
generate_call(t, w) == [prompt |-> request_prompt(t, w), settings |-> w.settings]

run_checkpoint(t, s) ==
    /\ At(t, s, "checkpoint")
    /\ LET w == worker[t][s]
           nxt == checkpoint(w.stop) IN
       IF nxt = "gen_enter"
       THEN Advance(t, s, [w EXCEPT !.pc = nxt, !.called = generate_call(t, w),
                                   !.ngen = @ + 1], <<>>)
       ELSE Advance(t, s, [w EXCEPT !.pc = nxt], <<>>)

\* str.lower() on the style labels
lower(style) ==
    CASE style = "Neutral" -> "neutral"
      [] style = "Unrestricted" -> "unrestricted"
      [] style = "Creative" -> "creative"
      [] style = "Realistic" -> "realistic"
      [] style = "Artistic" -> "artistic"
      [] style = "Anime" -> "anime"
      [] style = "Photorealism" -> "photorealism"
      [] style = "Concept art" -> "concept art"
      [] style = "Portrait" -> "portrait"
      [] style = "Landscape" -> "landscape"
      [] OTHER -> style

\* the style for which generate leaves the prompt alone: "нейтральный" in
\* TextGenerator, "без ограничений" in ImageGenerator
StyleSentinel(t) == IF t = "text" THEN "neutral" ELSE "unrestricted"
StyleSeparator(t) == IF t = "text" THEN ": " ELSE ", "

\* generate(): the prompt handed to the engine, as the sequence of the
\* strings it is concatenated from
style_prefix(t, style, prompt) ==
    IF style # "" /\ lower(style) # StyleSentinel(t)
    THEN <<style, StyleSeparator(t), prompt>>
    ELSE <<prompt>>

\* generate(): if not self.pipeline: raise RuntimeError("Model is not loaded")
generate_check_missing(loaded) == [pc |-> "gen_pipe", exc |-> "none"]
generate_check(loaded) ==
    IF loaded THEN [pc |-> "gen_pipe", exc |-> "none"]
              ELSE [pc |-> "except", exc |-> NotLoadedMessage]

generate_enter(t, s) ==
    /\ At(t, s, "gen_enter")
    /\ LET w == worker[t][s]
           c == generate_check(is_loaded(t)) IN
       Advance(t, s, [w EXCEPT !.pc = c.pc, !.exc = c.exc,
                               !.full_prompt =
                                   IF c.pc = "gen_pipe"
                                   THEN style_prefix(t, w.called.settings.style,
                                                     w.called.prompt)
                                   ELSE <<>>], <<>>)

\* generate(): the inference engine returns its output
engine_return(t, s, out) ==
    /\ At(t, s, "gen_pipe")
    /\ Advance(t, s, [worker[t][s] EXCEPT !.pc = "gen_cb", !.ret = out], <<>>)

\* generate(): the call self.pipeline(...) raises, in the engine or because
\* the handle was replaced after the check
engine_raise(t, s, err) ==
    /\ At(t, s, "gen_pipe")
    /\ Advance(t, s, [worker[t][s] EXCEPT !.pc = "except", !.exc = err], <<>>)

\* _progress_callback: the events emitted for a fraction (in thousandths)
progress_callback(w, p) ==
    IF ~w.stop THEN <<Event("progress_changed", percent(p), "cb")>> ELSE <<>>

\* generate(): if callback: callback(1.0), then return
final_fraction_half == FinalFraction \div 2
final_fraction == FinalFraction

generate_callback(t, s) ==
    /\ At(t, s, "gen_cb")
    /\ Advance(t, s, [worker[t][s] EXCEPT !.pc = "check_result", !.ncb = @ + 1,
                                          !.cb_last = final_fraction],
               progress_callback(worker[t][s], final_fraction))

\* a generator that reports intermediate progress: the callback is invoked
\* with an arbitrary fraction while the engine runs
engine_progress(t, s, p) ==
    /\ At(t, s, "gen_pipe")
    /\ worker[t][s].ncb < MaxCallbacks
    /\ Advance(t, s, [worker[t][s] EXCEPT !.ncb = @ + 1, !.cb_last = p],
               progress_callback(worker[t][s], p))

\* run(): if not self._stop_requested: (deliver the result)
result_check_ignores_stop(stopRequested) == "emit_result"
result_check(stopRequested) == IF stopRequested THEN "finally" ELSE "emit_result"

run_check_result(t, s) ==
    /\ At(t, s, "check_result")
    /\ Advance(t, s, [worker[t][s] EXCEPT !.pc = result_check(worker[t][s].stop)], <<>>)

\* the value carried by text_generated / image_generated
result_value_prompt(w) == w.prompt
result_value(w) == w.ret

\* the events of the success branch of run(), in the order of the source:
\* text_generated.emit(generated_text), status_changed.emit("Генерация
\* завершена"), progress_changed.emit(100)
success_events(t, w) ==
    <<Event(ResultSignal(t), result_value(w), "run"),
      Event("status_changed", StatusDone, "run"),
      Event("progress_changed", FinalProgress, "final")>>

run_emit_result(t, s) ==
    /\ At(t, s, "emit_result")
    /\ Advance(t, s, [worker[t][s] EXCEPT !.pc = "finally"],
               success_events(t, worker[t][s]))

\* run(): except Exception as e: self.error_occurred.emit(str(e))
except_events_force_progress(w) ==
    <<Event("error_occurred", w.exc, "run"),
      Event("progress_changed", FinalProgress, "final")>>
except_events(w) == <<Event("error_occurred", w.exc, "run")>>

\* run(): where the except clause continues
except_next_retry == "checkpoint"
except_next == "finally"

run_except(t, s) ==
    /\ At(t, s, "except")
    /\ Advance(t, s, [worker[t][s] EXCEPT !.pc = except_next], except_events(worker[t][s]))

\* run(): finally: self.finished.emit()
finally_events_none == <<>>
finally_events == <<Event("finished", "none", "run")>>

run_finally(t, s) ==
    /\ At(t, s, "finally")
    /\ Advance(t, s, [worker[t][s] EXCEPT !.pc = "exiting"], finally_events)

\* run() has returned; the thread is torn down and isRunning() becomes false
thread_exit(t, s) ==
    /\ At(t, s, "exiting")
    /\ LET n == Norm([worker EXCEPT ![t][s].pc = "ended"], generation_worker, queue) IN
       /\ worker' = n.worker
       /\ queue' = n.queue
    /\ UNCHANGED tabVars
    /\ UNCHANGED shellVars

\* ======================================================== specifications
\* the handlers of the queued worker signals
DispatchStep ==
    \/ update_progress
    \/ update_status
    \/ on_text_generated
    \/ on_generation_error
    \/ on_generation_finished

\* the controls the user can reach are those of the tab shown
UserStep ==
    \/ \E txt \in PromptTexts : EditPrompt(current_tab, txt)
    \/ ClickGenerate(current_tab)
    \/ ClickStop(current_tab)
    \/ \E name \in Models : load_model_begin(current_tab, name)

\* the interactive thread handles one event at a time; while it is inside
\* load_model it handles none
MainStep ==
    \/ loading = NoLoad /\ (UserStep \/ DispatchStep)
    \/ \E ok \in BOOLEAN : load_model_end(ok)

WorkerStep ==
    \E t \in Tabs, s \in Slots :
        \/ run_begin(t, s)
        \/ run_checkpoint(t, s)
        \/ generate_enter(t, s)
        \/ \E out \in Outputs : engine_return(t, s, out)
        \/ \E err \in EngineErrors : engine_raise(t, s, err)
        \/ generate_callback(t, s)
        \/ run_check_result(t, s)
        \/ run_emit_result(t, s)
        \/ run_except(t, s)
        \/ run_finally(t, s)
        \/ thread_exit(t, s)

\* the application driven through its controls, with the generators of the
\* repository
Next == MainStep \/ WorkerStep
Spec == Init /\ [][Next]_vars

\* every worker thread is scheduled and the inference call returns or
\* raises; the event loop of the interactive thread takes its events in the
\* order they were posted, so that a queued signal is handled however many
\* user events keep arriving; a load_model call comes back
Fairness ==
    /\ WF_vars(WorkerStep)
    /\ SF_vars(loading = NoLoad /\ DispatchStep)
    /\ WF_vars(\E ok \in BOOLEAN : load_model_end(ok))

\* a tab with a prompt typed in and the demo model loaded
InitReady ==
    /\ current_tab \in Tabs
    /\ controls = DefaultControls
    /\ closed = FALSE
    /\ input_text = [t \in Tabs |-> IF t = current_tab THEN " a " ELSE ""]
    /\ pipeline = [t \in Tabs |-> "Demo Mode"]
    /\ current_model = pipeline
    /\ load_result = [t \in Tabs |-> IF pipeline[t] = "none" THEN "false" ELSE "true"]
    /\ loading = NoLoad
    /\ model_status_label = [t \in Tabs |-> LabelDemoActive]
    /\ generation_worker = [t \in Tabs |-> 0]
    /\ generate_button = [t \in Tabs |-> TRUE]
    /\ stop_button = [t \in Tabs |-> FALSE]
    /\ output = [t \in Tabs |-> "none"]
    /\ worker = [t \in Tabs |-> [s \in Slots |-> BlankWorker]]
    /\ queue = <<>>
    /\ status_label = StatusReady
    /\ progress_visible = FALSE
    /\ progress_value = 0

JobStep ==
    \/ ClickGenerate(current_tab)
    \/ ClickStop(current_tab)
    \/ update_progress
    \/ update_status
    \/ on_text_generated
    \/ on_generation_error
    \/ on_generation_finished
    \/ WorkerStep

\* jobs run against a generator that reports intermediate progress through
\* the callback
NextCb == JobStep \/ \E t \in Tabs, s \in Slots, p \in Fractions : engine_progress(t, s, p)
SpecCb == InitReady /\ [][NextCb]_vars

\* jobs submitted both through the control and by calling start_generation,
\* and left to run to their end
NextApi ==
    \/ ClickGenerate(current_tab)
    \/ CallStartGeneration(current_tab)
    \/ update_progress
    \/ update_status
    \/ on_text_generated
    \/ on_generation_error
    \/ on_generation_finished
    \/ WorkerStep
SpecApi == InitReady /\ [][NextApi]_vars

\* the text tab shown, its prompt filled in and its model loaded
InitLive == InitReady /\ current_tab = "text"

\* the jobs of the tab shown, with the loads the user can request meanwhile
NextLive ==
    \/ loading = NoLoad /\ ClickGenerate(current_tab)
    \/ loading = NoLoad /\ ClickStop(current_tab)
    \/ loading = NoLoad /\ \E name \in Models : load_model_begin(current_tab, name)
    \/ loading = NoLoad /\ DispatchStep
    \/ \E ok \in BOOLEAN : load_model_end(ok)
    \/ WorkerStep
SpecLive == InitLive /\ [][NextLive]_vars /\ Fairness

\* the steps of run() up to the call of the engine
RequestStep(t, s) ==
    \/ run_begin(t, s)
    \/ run_checkpoint(t, s)
    \/ generate_enter(t, s)

\* every change the parameter controls of the tabs allow
ControlStep(t) ==
    \/ \E style \in StyleOptions(t) : style_combo_select(t, style)
    \/ t = "text" /\ \E v \in LengthInputs : length_spinbox_setValue(v)
    \/ t = "text" /\ \E v \in TemperatureInputs : temperature_slider_setValue(v)
    \/ t = "image" /\ \E v \in SizeInputs : width_spinbox_setValue(v)
    \/ t = "image" /\ \E v \in SizeInputs : height_spinbox_setValue(v)
    \/ t = "image" /\ \E v \in StepsInputs : steps_slider_setValue(v)
    \/ t = "image" /\ \E v \in GuidanceInputs : guidance_slider_setValue(v)
    \/ t = "image" /\ \E preset \in SizePresets : on_size_preset_changed(preset)
    \/ t = "image" /\ apply_landscape_preset
    \/ t = "image" /\ apply_portrait_preset
    \/ t = "image" /\ apply_art_preset
    \/ t = "image" /\ apply_photo_preset
    \/ t = "image" /\ apply_anime_preset
    \/ t = "image" /\ apply_concept_preset

\* the controls of the tab shown set in any way, then one submission, followed
\* up to the call of the engine
NextControls ==
    \/ generation_worker[current_tab] = 0 /\ ControlStep(current_tab)
    \/ ClickGenerate(current_tab)
    \/ \E s \in Slots : RequestStep(current_tab, s)
SpecControls == InitReady /\ [][NextControls]_vars

\* changes of the prompt and of some controls at any time, also after the
\* submission
EditStep(t) ==
    \/ \E txt \in PromptTexts : EditPrompt(t, txt)
    \/ t = "text" /\ style_combo_select(t, "Creative")
    \/ t = "text" /\ length_spinbox_setValue(LengthMax + 1)
    \/ t = "image" /\ apply_art_preset
    \/ t = "image" /\ width_spinbox_setValue(SizeMin - 1)
NextEdit ==
    \/ EditStep(current_tab)
    \/ ClickGenerate(current_tab)
    \/ \E s \in Slots : RequestStep(current_tab, s)
SpecEdit == InitReady /\ [][NextEdit]_vars

\* jobs of the tab shown and the closing of the window
NextClose ==
    \/ ~closed /\ ClickGenerate(current_tab)
    \/ ~closed /\ ClickStop(current_tab)
    \/ ~closed /\ DispatchStep
    \/ ~closed /\ \E reply \in {"Yes", "No"} : closeEvent(reply)
    \/ WorkerStep
SpecClose == InitReady /\ [][NextClose]_vars

\* both tabs with a prompt and a model, one job each
InitTwo ==
    /\ current_tab = "text"
    /\ controls = DefaultControls
    /\ closed = FALSE
    /\ input_text = [t \in Tabs |-> " a "]
    /\ pipeline = [t \in Tabs |-> "Demo Mode"]
    /\ current_model = pipeline
    /\ load_result = [t \in Tabs |-> "true"]
    /\ loading = NoLoad
    /\ model_status_label = [t \in Tabs |-> LabelDemoActive]
    /\ generation_worker = [t \in Tabs |-> 0]
    /\ generate_button = [t \in Tabs |-> TRUE]
    /\ stop_button = [t \in Tabs |-> FALSE]
    /\ output = [t \in Tabs |-> "none"]
    /\ worker = [t \in Tabs |-> [s \in Slots |-> BlankWorker]]
    /\ queue = <<>>
    /\ status_label = StatusReady
    /\ progress_visible = FALSE
    /\ progress_value = 0
NextTwo ==
    \/ \E t \in Tabs : generation_worker[t] = 0 /\ ClickGenerate(t)
    \/ DispatchStep
    \/ WorkerStep
SpecTwo == InitTwo /\ [][NextTwo]_vars

\* one job in each tab and the closing of the window
NextCloseTwo ==
    \/ ~closed /\ \E t \in Tabs : generation_worker[t] = 0 /\ ClickGenerate(t)
    \/ ~closed /\ DispatchStep
    \/ ~closed /\ \E reply \in {"Yes", "No"} : closeEvent(reply)
    \/ WorkerStep
SpecCloseTwo == InitTwo /\ [][NextCloseTwo]_vars

\* the model controls of both tabs, from the state the tabs are constructed in
NextModel ==
    \/ loading = NoLoad /\ \E t \in Tabs, name \in Models : load_model_begin(t, name)
    \/ \E ok \in BOOLEAN : load_model_end(ok)
    \/ loading = NoLoad /\ \E t \in Tabs, text \in Models : on_model_changed(t, text)
SpecModel == Init /\ [][NextModel]_vars

TypeOK ==
    /\ generation_worker \in [Tabs -> 0..MaxWorkers]
    /\ closed \in BOOLEAN
    /\ controls["text"].style \in TextStyles /\ controls["image"].style \in ImageStyles
    /\ pipeline \in [Tabs -> Models \cup {"none"}]
    /\ load_result \in [Tabs -> {"true", "false", "raised"}]
    /\ loading \in {NoLoad} \cup [tab : Tabs, name : Models]
    /\ generate_button \in [Tabs -> BOOLEAN]
    /\ \A t \in Tabs, s \in Slots : worker[t][s].pc \in RunPcs \cup {"none", "exiting", "ended"}


\* ================================================================ claims
Has(seq, sig) == \E i \in 1..Len(seq) : seq[i].sig = sig
Count(seq, sig) == Cardinality({i \in 1..Len(seq) : seq[i].sig = sig})
IsTerminal(t, e) == e.sig \in {ResultSignal(t), "error_occurred"}
Terminals(t, seq) == Cardinality({i \in 1..Len(seq) : IsTerminal(t, seq[i])})
\* the progress events of a job that come from its worker
IsWorkerProgress(e) == e.sig = "progress_changed" /\ e.site # "tab"
WorkerProgress(seq) == SelectSeq(seq, IsWorkerProgress)
Over(w) == w.pc \in {"exiting", "ended"}
InRun(t) == {s \in Slots : worker[t][s].pc \in RunPcs}
BeforeCheckpoint == {"start", "checkpoint"}
InsideGenerate == {"gen_enter", "gen_pipe", "gen_cb"}

\* C1: in every reachable state of a tab at most one worker started by the
\* tab is executing run() (from start() to its finished emission).
C1_AtMostOneRunning == \A t \in Tabs : Cardinality(InRun(t)) <= 1

\* a second job is running while the thread of the previous one is still
\* being torn down
C1_Witness ==
    \E t \in Tabs, s1 \in Slots, s2 \in Slots :
        /\ worker[t][s1].pc \in RunPcs
        /\ worker[t][s2].pc = "exiting"

\* C2: a submission issued while a job of the tab is running is rejected: it
\* starts no second worker and leaves the tab's worker reference, the
\* running worker's request and its stop flag as they were.
C2_SecondSubmissionRejected ==
    [][\A t \in Tabs :
         LET s == generation_worker[t] IN
         (s # 0 /\ worker[t][s].pc \in RunPcs) =>
            /\ generation_worker'[t] = s
            /\ Cardinality({x \in Slots : worker'[t][x].pc \in RunPcs}) <= 1
            /\ worker'[t][s].prompt = worker[t][s].prompt]_vars

\* C3: every job delivers exactly one terminal outcome, once: a result
\* (Completed), an error (Failed), or, for a job whose stop was requested,
\* neither of them before finished (Cancelled); never a result and an error.
C3_OneTerminalOutcome ==
    \A t \in Tabs, s \in Slots :
        LET w == worker[t][s] IN
        /\ Terminals(t, w.emitted) <= 1
        /\ Count(w.emitted, "finished") <= 1
        /\ Has(w.seen, "finished") =>
              /\ Terminals(t, w.seen) = Terminals(t, w.emitted)
              /\ Terminals(t, w.seen) = 0 => w.stop

\* a cancelled job: finished was delivered with neither a result nor an error
C3_Witness ==
    \E t \in Tabs, s \in Slots :
        /\ Has(worker[t][s].seen, "finished")
        /\ Terminals(t, worker[t][s].seen) = 0
        /\ worker[t][s].stop

\* C4: once the result or the error of a job has been emitted, no progress
\* notification of that job is emitted.
C4_TerminalAfterProgress ==
    \A t \in Tabs, s \in Slots :
        LET e == worker[t][s].emitted IN
        \A i \in 1..Len(e), j \in 1..Len(e) :
            (i < j /\ IsTerminal(t, e[i])) => e[j].sig # "progress_changed"

\* C5: the progress values delivered to observers for one job are
\* non-decreasing.
C5_ProgressMonotone ==
    \A t \in Tabs, s \in Slots :
        LET p == WorkerProgress(worker[t][s].seen) IN
        \A i \in 1..Len(p), j \in 1..Len(p) : i < j => p[i].val <= p[j].val

\* C6: every progress value a worker forwards lies in 0..100.
C6_ProgressClamped ==
    \A t \in Tabs, s \in Slots :
        LET p == WorkerProgress(worker[t][s].emitted) IN
        \A i \in 1..Len(p) : p[i].val \in 0..100

\* C7: a job whose stop was requested before any progress callback of the
\* inference call fired ends Cancelled: it emits neither a result nor an
\* error, whether generate returns or raises.
C7_StopBeforeCallbackCancels ==
    \A t \in Tabs, s \in Slots :
        LET w == worker[t][s] IN
        (w.stop_pc \in BeforeCheckpoint \cup InsideGenerate /\ Over(w)) =>
            Terminals(t, w.emitted) = 0

\* C8: when the stop flag is set while generate is executing and generate
\* then returns, the output is discarded: the worker emits no result, no
\* completion status and no final progress 100.
C8_StoppedResultDiscarded ==
    \A t \in Tabs, s \in Slots :
        LET w == worker[t][s] IN
        (w.stop_pc \in InsideGenerate /\ w.ret # "none") =>
            \A i \in 1..Len(w.emitted) :
                /\ w.emitted[i].sig # ResultSignal(t)
                /\ w.emitted[i] # Event("status_changed", StatusDone, "run")
                /\ w.emitted[i].site # "final"

\* the job is over, generate had returned an output after the stop request
C8_Witness ==
    \E t \in Tabs, s \in Slots :
        /\ worker[t][s].stop_pc = "gen_pipe"
        /\ worker[t][s].ret # "none"
        /\ Has(worker[t][s].seen, "finished")

\* C9: when stop() is called before the worker has passed the checkpoint
\* that precedes generation, the worker never calls generate and ends
\* without a result.
C9_CheckpointBeforeGenerate ==
    \A t \in Tabs, s \in Slots :
        LET w == worker[t][s] IN
        w.stop_pc \in BeforeCheckpoint =>
            /\ w.pc \in {"start", "checkpoint", "finally", "exiting", "ended"}
            /\ w.ret = "none" /\ w.exc = "none" /\ w.ncb = 0
            /\ Terminals(t, w.emitted) = 0

\* a job stopped before its checkpoint has ended
C9_Witness ==
    \E t \in Tabs, s \in Slots :
        /\ worker[t][s].stop_pc \in BeforeCheckpoint
        /\ worker[t][s].pc = "ended"

\* C10: a job whose generate call returned and whose stop flag was not set
\* when run() inspected it after the call completes: the tab receives the
\* result carrying exactly the returned value and the last progress the
\* worker delivers is 100.
C10_CompletionDeliversResult ==
    \A t \in Tabs, s \in Slots :
        LET w == worker[t][s]
            p == WorkerProgress(w.seen) IN
        (/\ w.ret # "none"
         /\ w.stop_pc \notin BeforeCheckpoint \cup InsideGenerate \cup {"check_result"}
         /\ Has(w.seen, "finished")) =>
            /\ Count(w.seen, ResultSignal(t)) = 1
            /\ \A i \in 1..Len(w.seen) :
                   w.seen[i].sig = ResultSignal(t) => w.seen[i].val = w.ret
            /\ p # <<>> /\ p[Len(p)].val = FinalProgress
            /\ generation_worker[t] = s => output[t] = w.ret

\* a completed job, all of whose events have been handled
C10_Witness ==
    \E t \in Tabs, s \in Slots :
        /\ worker[t][s].ret # "none"
        /\ ~worker[t][s].stop
        /\ Has(worker[t][s].seen, "finished")
        /\ output[t] = worker[t][s].ret

\* a worker is constructed and started by the step
Created(t) == worker'[t][1].pc = "start" /\ worker[t][1].pc # "start"

\* the tab has no worker thread alive, none of its events is queued and the
\* interactive thread is not inside load_model
Quiet(t) ==
    /\ \A s \in Slots : worker[t][s].pc \in {"none", "ended"}
    /\ \A i \in 1..Len(queue) : queue[i].tab # t
    /\ loading = NoLoad

\* what a rejected submission leaves alone: the worker reference, the
\* controls, the workers, the queued events and the progress indicator of
\* the window; the status changes only by the start of a load
Untouched(t) ==
    /\ generation_worker'[t] = generation_worker[t]
    /\ generate_button'[t] = generate_button[t]
    /\ stop_button'[t] = stop_button[t]
    /\ worker'[t] = worker[t]
    /\ queue' = queue
    /\ progress_visible' = progress_visible
    /\ progress_value' = progress_value
    /\ (status_label' = status_label \/ loading' # NoLoad)

\* C11: when generate raises inside a running worker, the worker emits
\* error_occurred exactly once, carrying the message of the error, emits no
\* result, and does not force progress to 100 nor emit any progress after
\* the error.
C11_FailureReportedOnce ==
    \A t \in Tabs, s \in Slots :
        LET w == worker[t][s] IN
        w.exc # "none" =>
            /\ Count(w.emitted, ResultSignal(t)) = 0
            /\ Count(w.emitted, "error_occurred") <= 1
            /\ (w.pc \in {"finally", "exiting", "ended"} =>
                    Count(w.emitted, "error_occurred") = 1)
            /\ \A i \in 1..Len(w.emitted) :
                   /\ w.emitted[i].sig = "error_occurred" =>
                          /\ w.emitted[i].val = w.exc
                          /\ \A j \in (i + 1)..Len(w.emitted) :
                                 w.emitted[j].sig # "progress_changed"
                   /\ w.emitted[i].sig = "progress_changed" =>
                          /\ w.emitted[i].site # "final"
                          /\ w.emitted[i].val # FinalProgress

\* a job whose inference call raised, over, its error handled by the tab
C11_Witness ==
    \E t \in Tabs, s \in Slots :
        /\ worker[t][s].exc \in EngineErrors
        /\ Has(worker[t][s].seen, "error_occurred")
        /\ Has(worker[t][s].seen, "finished")

\* C12: after every started job of the tab shown, whatever its outcome, and
\* provided the inference call returns or raises, the tab eventually has its
\* generate control enabled and its stop control disabled again.
C12_ControlsEventuallyReset ==
    (~generate_button[current_tab]) ~>
        (generate_button[current_tab] /\ ~stop_button[current_tab])

\* the controls are back after a job that failed
C12_Witness ==
    \E t \in Tabs :
        /\ generation_worker[t] # 0
        /\ worker[t][generation_worker[t]].exc # "none"
        /\ Has(worker[t][generation_worker[t]].seen, "finished")
        /\ generate_button[t] /\ ~stop_button[t]

\* C13: while the prompt of a tab is empty after stripping whitespace, no
\* worker is constructed or started; a submission then made on the idle tab
\* emits no status or progress event and leaves the worker reference, the
\* controls and the idle runner as they were.
C13_EmptyPromptRejected ==
    [][\A t \in Tabs :
          input_text[t] \in {"", "  "} =>
              /\ ~Created(t)
              /\ (t = current_tab /\ Quiet(t)) => Untouched(t)]_vars

\* the generate control can be used on a prompt of whitespace only, with a
\* model loaded
C13_Witness ==
    /\ input_text[current_tab] = "  "
    /\ generate_button[current_tab]
    /\ pipeline[current_tab] # "none"
    /\ Quiet(current_tab)

\* C14: while no model handle is resident, a submission with a non-empty
\* prompt creates and starts no worker and leaves the idle tab as it was: a
\* worker is only ever started from a state where the handle was resident.
C14_NotLoadedRejected ==
    [][\A t \in Tabs :
          pipeline[t] = "none" =>
              /\ ~Created(t)
              /\ (t = current_tab /\ Quiet(t)) => Untouched(t)]_vars

\* the generate control can be used with a prompt and no model loaded
C14_Witness ==
    /\ input_text[current_tab] = " a "
    /\ generate_button[current_tab]
    /\ pipeline[current_tab] = "none"
    /\ Quiet(current_tab)

\* C15: stop_generation has no effect when no job has been submitted or
\* when the result of the last job has already been delivered to the tab:
\* no stop flag gets set and no stopping status is published.
C15_StopWithoutJobIsNoop ==
    [][\A t \in Tabs :
          LET s == generation_worker[t] IN
          (s = 0 \/ Has(worker[t][s].seen, ResultSignal(t))) =>
              /\ \A x \in Slots : worker'[t][x].stop =>
                                       \E y \in Slots : worker[t][y].stop
              /\ (t = current_tab /\ status_label' = StatusStopping) =>
                     status_label = StatusStopping]_vars

\* C16: a load replaces what was loaded: when load_model(B) completes,
\* either it succeeded and both the handle and current_model are those of B,
\* or it failed and the generator has no handle and no current_model -
\* never those of the model resident before.
C16_LoadReplaces ==
    [][(loading # NoLoad /\ loading' = NoLoad) =>
          LET t == loading.tab IN
          /\ load_result'[t] = "true" =>
                 pipeline'[t] = loading.name /\ current_model'[t] = loading.name
          /\ load_result'[t] # "true" =>
                 pipeline'[t] = "none" /\ current_model'[t] = "none"]_vars

\* the other model was loaded through the tab
C16_Witness ==
    \E t \in Tabs :
        /\ pipeline[t] = "Other" /\ current_model[t] = "Other"
        /\ load_result[t] = "true"
        /\ status_label = StatusLoaded

\* C17: load_model never raises to its caller; when it fails it returns
\* false and leaves the generator unloaded; it returns true only with a
\* handle resident.
C17_LoadNeverRaises ==
    \A t \in Tabs :
        /\ load_result[t] # "raised"
        /\ load_result[t] = "true" => pipeline[t] # "none"
        /\ load_result[t] = "false" => pipeline[t] = "none" /\ current_model[t] = "none"

\* a load requested through the tab has failed
C17_Witness ==
    \E t \in Tabs :
        /\ load_result[t] = "false"
        /\ loading = NoLoad
        /\ status_label = StatusLoading

\* C18: while load_model acquires the new model the generator does not hold
\* the handle resident before.
C18_PriorHandleReleasedFirst ==
    \A t \in Tabs : loading.tab = t => pipeline[t] = "none"

\* C19: the handle of a tab is not changed while a job of that tab is
\* running.
C19_HandleFrozenWhileRunning ==
    [][\A t \in Tabs :
          InRun(t) # {} =>
              pipeline'[t] = pipeline[t] /\ current_model'[t] = current_model[t]]_vars

\* C20: generate entered with no handle resident raises the not-loaded
\* error before the engine is driven and before the callback is invoked; the
\* worker reports that failure as a single error_occurred and never as a
\* result.
C20_NotLoadedFailsFast ==
    [][\A t \in Tabs, s \in Slots :
          LET w == worker[t][s]
              v == worker'[t][s] IN
          /\ (w.pc = "gen_enter" /\ v.pc # "gen_enter" /\ pipeline[t] = "none") =>
                 v.pc = "except" /\ v.exc = NotLoadedMessage
          /\ v.exc = NotLoadedMessage =>
                 /\ v.ncb = 0 /\ v.ret = "none"
                 /\ Count(v.emitted, ResultSignal(t)) = 0
                 /\ Count(v.emitted, "error_occurred") <= 1
                 /\ Has(v.seen, "finished") =>
                        /\ Count(v.seen, "error_occurred") = 1
                        /\ Count(v.seen, ResultSignal(t)) = 0]_vars

\* a job that found no handle, over, its error handled by the tab
C20_Witness ==
    \E t \in Tabs, s \in Slots :
        /\ worker[t][s].exc = NotLoadedMessage
        /\ Has(worker[t][s].seen, "error_occurred")
        /\ Has(worker[t][s].seen, "finished")

\* the other tab
Other(t) == IF t = "text" THEN "image" ELSE "text"

\* C21: a generate call that has returned invoked the callback at least
\* once and the last invocation carried 1.0; when the inference engine
\* failed, the callback was not invoked with 1.0.
C21_CallbackEndsAtOne ==
    \A t \in Tabs, s \in Slots :
        LET w == worker[t][s] IN
        /\ (w.ret # "none" /\ w.pc # "gen_cb") =>
               w.ncb >= 1 /\ w.cb_last = FinalFraction
        /\ w.exc \in EngineErrors => w.cb_last # FinalFraction

\* generate has just returned to run()
C21_Witness ==
    \E t \in Tabs, s \in Slots :
        /\ worker[t][s].pc = "check_result"
        /\ worker[t][s].ret # "none"
        /\ worker[t][s].cb_last = FinalFraction

\* C22: a step of one tab's job (start, worker step, handling of one of its
\* events) leaves the other tab's generator, workers, controls, prompt and
\* output alone and, while the other tab has a job running, leaves the
\* status and the progress the window shows alone.
C22_TabsIndependent ==
    [][\A u \in Tabs :
          LET t == Other(u) IN
          worker'[u] # worker[u] =>
              /\ pipeline'[t] = pipeline[t] /\ current_model'[t] = current_model[t]
              /\ worker'[t] = worker[t]
              /\ generation_worker'[t] = generation_worker[t]
              /\ generate_button'[t] = generate_button[t]
              /\ stop_button'[t] = stop_button[t]
              /\ controls'[t] = controls[t]
              /\ input_text'[t] = input_text[t] /\ output'[t] = output[t]
              /\ InRun(t) # {} =>
                     /\ status_label' = status_label
                     /\ progress_visible' = progress_visible
                     /\ progress_value' = progress_value]_vars

\* C23: the worker is built from the prompt and the parameter controls as
\* they are at submission; afterwards no step changes its prompt or its
\* settings, and generate is called with exactly these, whatever has been
\* done to the tab's controls meanwhile.
C23_RequestNotMutated ==
    [][\A t \in Tabs :
          /\ Created(t) =>
                 /\ worker'[t][1].prompt = strip(input_text[t])
                 /\ worker'[t][1].settings = settings(t)
          /\ \A s \in Slots :
                 (worker[t][s].pc \in RunPcs /\ worker'[t][s].pc \in RunPcs /\ ~Created(t)) =>
                     /\ worker'[t][s].prompt = worker[t][s].prompt
                     /\ worker'[t][s].settings = worker[t][s].settings
                     /\ worker'[t][s].called # NoCall =>
                            worker'[t][s].called = [prompt |-> worker[t][s].prompt,
                                                     settings |-> worker[t][s].settings]]_vars

\* generate was called with the submitted prompt and settings after the
\* prompt and the controls were changed
C23_Witness ==
    \E t \in Tabs, s \in Slots :
        /\ worker[t][s].called # NoCall
        /\ worker[t][s].called.prompt = "a"
        /\ input_text[t] = "  "
        /\ settings(t) # worker[t][s].called.settings

\* C24: a job for which stop() was requested before or during the generate
\* call never emits error_occurred.
C24_CancelledNotAnError ==
    \A t \in Tabs, s \in Slots :
        worker[t][s].stop_pc \in BeforeCheckpoint \cup InsideGenerate =>
            ~Has(worker[t][s].emitted, "error_occurred")

\* C25: the progress indicator changes only when a progress value arrives:
\* a negative value (the one the tab publishes when it handles finished
\* included) hides it, any other value makes it visible and is shown.
C25_ProgressSentinel ==
    [][IF Len(queue') < Len(queue)
       THEN LET e == Head1.ev IN
            CASE e.sig = "progress_changed" ->
                     IF e.val < 0 THEN ~progress_visible'
                     ELSE progress_visible' /\ progress_value' = e.val
              [] e.sig = "finished" -> ~progress_visible'
              [] OTHER -> /\ progress_visible' = progress_visible
                          /\ progress_value' = progress_value
       ELSE /\ progress_visible' = progress_visible
            /\ progress_value' = progress_value]_vars

\* the indicator is hidden after it has shown 100
C25_Witness ==
    /\ ~progress_visible
    /\ progress_value = FinalProgress
    /\ queue = <<>>

\* positions of the negative progress values among the events of a job
Hides(seq) == {i \in 1..Len(seq) : seq[i].sig = "progress_changed" /\ seq[i].val < 0}

\* C26: among the events published for a job there is at most one negative
\* progress value; there is one exactly when finished has been handled, it
\* is the hide sentinel published by the tab right after finished, and
\* nothing of the job is published after it.
C26_HideSentinelLast ==
    \A t \in Tabs, s \in Slots :
        LET seen == worker[t][s].seen IN
        /\ Cardinality(Hides(seen)) <= 1
        /\ Has(seen, "finished") <=> Hides(seen) # {}
        /\ \A i \in Hides(seen) :
               /\ i = Len(seen)
               /\ seen[i].val = HideSentinel
               /\ i > 1 /\ seen[i - 1].sig = "finished"

\* finished of a job that reported progress has been handled
C26_Witness ==
    \E t \in Tabs, s \in Slots :
        /\ Has(worker[t][s].seen, "finished")
        /\ Len(WorkerProgress(worker[t][s].seen)) >= 2

\* C27: a worker, built by one accepted submission, calls generate at most
\* once, also after the call has failed or the job was cancelled.
C27_NoRetry ==
    \A t \in Tabs, s \in Slots :
        /\ worker[t][s].ngen <= 1
        /\ worker[t][s].pc \in InsideGenerate => worker[t][s].ngen = 1

\* a failed job has ended and generate was called once
C27_Witness ==
    \E t \in Tabs, s \in Slots :
        /\ worker[t][s].exc # "none"
        /\ worker[t][s].pc = "ended"
        /\ worker[t][s].ngen = 1
        /\ generate_button[t]

\* C28: a step of the interactive thread that requests a stop, closes the
\* window or starts a job completes with every worker that is inside the
\* inference call still inside it, and with the started worker not yet run.
C28_NoSynchronousWait ==
    [][\A t \in Tabs :
          /\ (generate_button[t] /\ ~generate_button'[t]) =>
                 worker'[t][1].pc = "start" /\ worker'[t][1].emitted = <<>>
          /\ \A s \in Slots :
                 (/\ worker[t][s].pc = "gen_pipe"
                  /\ \/ worker'[t][s].stop # worker[t][s].stop
                     \/ closed' # closed) =>
                     worker'[t][s].pc = "gen_pipe"]_vars

\* the window was closed while a worker is inside the inference call
C28_Witness ==
    \E t \in Tabs, s \in Slots :
        /\ closed
        /\ worker[t][s].pc = "gen_pipe"
        /\ worker[t][s].stop

\* the ranges of the domain parameters, temperature and guidance_scale in
\* tenths
InRange(t, set) ==
    IF t = "text"
    THEN /\ set.max_length \in 50..2000
         /\ set.temperature \in 1..20
    ELSE /\ set.width \in 256..1024
         /\ set.height \in 256..1024
         /\ set.steps \in 10..100
         /\ set.guidance_scale \in 5..100

\* C29: the settings of every submitted request, and those generate is
\* called with, lie inside the ranges: max_length 50..2000, temperature
\* 0.1..2.0; width and height 256..1024, steps 10..100, guidance_scale
\* 0.5..10.0.
C29_ParametersInRange ==
    \A t \in Tabs, s \in Slots :
        LET w == worker[t][s] IN
        /\ w.settings # NoSettings => InRange(t, w.settings)
        /\ w.called # NoCall => InRange(t, w.called.settings)

\* generate was called after a preset and an out-of-range input
C29_Witness ==
    \E s \in Slots :
        LET w == worker["image"][s] IN
        /\ w.called # NoCall
        /\ w.called.settings.style = "Artistic"
        /\ w.called.settings.guidance_scale = 75
        /\ w.called.settings.width = 1024

\* C30: the prompt handed to the engine is the user's prompt unchanged when
\* the style is one of the options labelled neutral or unrestricted, and
\* the style, the separator of the tab and the prompt for any other style.
C30_StyleSentinel ==
    \A t \in Tabs, s \in Slots :
        LET w == worker[t][s]
            st == w.called.settings.style IN
        w.full_prompt # <<>> =>
            IF st \in {"Neutral", "Unrestricted"}
            THEN w.full_prompt = <<w.called.prompt>>
            ELSE w.full_prompt = <<st, StyleSeparator(t), w.called.prompt>>

\* the events of a run that delivers its result, in the order of run()
SuccessRun(t, w) ==
    <<Event("status_changed", StatusGenerating, "run"),
      Event("progress_changed", InitialProgress, "init"),
      Event("progress_changed", percent(FinalFraction), "cb"),
      Event(ResultSignal(t), w.ret, "run"),
      Event("status_changed", StatusDone, "run"),
      Event("progress_changed", FinalProgress, "final"),
      Event("finished", "none", "run")>>

\* C31: every run of a worker emits finished exactly once and as its last
\* event, whether it returned at the stop checkpoint, delivered its result,
\* discarded it or failed; a run that delivers its result emits start
\* status, progress 10, callback progress, result, completion status,
\* progress 100, finished, in this order.
C31_FinishedOnceAndLast ==
    \A t \in Tabs, s \in Slots :
        LET w == worker[t][s]
            e == w.emitted IN
        /\ Count(e, "finished") <= 1
        /\ \A i \in 1..Len(e) : e[i].sig = "finished" => i = Len(e)
        /\ (Over(w) /\ e # <<>>) <=> Has(e, "finished")
        /\ (Over(w) /\ Has(e, ResultSignal(t))) => e = SuccessRun(t, w)

\* a run that delivered its result is over and its events have been handled
C31_Witness ==
    \E t \in Tabs, s \in Slots :
        LET w == worker[t][s] IN
        /\ Over(w)
        /\ w.emitted = SuccessRun(t, w)
        /\ Len(w.seen) >= Len(w.emitted)

\* C32: the stop flag belongs to one worker and is sticky: the worker an
\* accepted start_generation creates has it false, also after a cancelled
\* job; once set it stays set for as long as the tab references the worker;
\* it is set only through the stop control of the worker's own tab and the
\* step leaves the workers of the other tab alone.
C32_StopFlagSticky ==
    [][\A t \in Tabs :
          /\ Created(t) => ~worker'[t][1].stop /\ worker'[t][1].stop_pc = "none"
          /\ (~Created(t) /\ worker[t][1].stop) => worker'[t][1].stop
          /\ (~worker[t][1].stop /\ worker'[t][1].stop) =>
                 /\ ~Created(t)
                 /\ stop_button[t]
                 /\ worker'[Other(t)] = worker[Other(t)]]_vars

\* a job was cancelled, its stopping status is still shown, and the worker of
\* the next job has been created with its flag false
C32_Witness ==
    \E t \in Tabs :
        /\ worker[t][1].pc = "start"
        /\ ~worker[t][1].stop
        /\ status_label = StatusStopping

\* C33: in every reachable state of a tab exactly one of the generate and
\* stop controls is enabled: generate is disabled and stop enabled from the
\* start of a worker until the finished event of that worker has been
\* handled, generate is enabled and stop disabled at all other times.
C33_ExactlyOneControl ==
    \A t \in Tabs :
        LET s == generation_worker[t] IN
        /\ generate_button[t] = ~stop_button[t]
        /\ stop_button[t] <=> (s # 0 /\ ~Has(worker[t][s].seen, "finished"))

\* the run is over and its finished event is still queued: the controls are
\* those of a running job
C33_Witness ==
    \E t \in Tabs :
        /\ generation_worker[t] # 0
        /\ Over(worker[t][generation_worker[t]])
        /\ Pending(queue, t, generation_worker[t])
        /\ stop_button[t] /\ ~generate_button[t]

\* C34: whenever no load_model call is in progress, the generator of a tab
\* has a handle exactly when it has a current_model; a completed load_model
\* that leaves a handle leaves the name it was given as current_model, and
\* nothing but a load_model of the tab changes either of them.
C34_HandleAndNameAgree ==
    [][\A t \in Tabs :
          /\ loading' = NoLoad =>
                 (pipeline'[t] # "none" <=> current_model'[t] # "none")
          /\ (loading.tab = t /\ loading' = NoLoad /\ pipeline'[t] # "none") =>
                 current_model'[t] = loading.name
          /\ loading.tab # t =>
                 pipeline'[t] = pipeline[t] /\ current_model'[t] = current_model[t]]_vars

\* a generator that had run a job has lost its model by a failed load
C34_Witness ==
    /\ loading = NoLoad
    /\ status_label = StatusLoading
    /\ generation_worker[current_tab] # 0
    /\ pipeline[current_tab] = "none"
    /\ current_model[current_tab] = "none"

\* C35: while a job of either tab is running and has reported progress, the
\* progress indicator of the window is visible, also when the jobs of both
\* tabs run together and one of them ends first.
C35_ProgressVisibleWhileRunning ==
    (\E t \in Tabs, s \in Slots :
        /\ worker[t][s].pc \in RunPcs
        /\ WorkerProgress(worker[t][s].seen) # <<>>) => progress_visible

\* C36: the status does not stay at the stopping message: once
\* stop_generation has published it, a later status is eventually published
\* and shown in its place.
C36_StoppingStatusReplaced ==
    (status_label = StatusStopping) ~> (status_label # StatusStopping)

\* C37: whenever no load is in progress, the model status label of a tab
\* shows an active or loaded status exactly when the generator of the tab
\* has a model loaded.
C37_ModelStatusAgrees ==
    loading = NoLoad =>
        \A t \in Tabs :
            model_status_label[t] \in {LabelDemoActive, LabelLoaded} <=> is_loaded(t)

\* C38: in every reachable state of the image tab, the initial one included,
\* the guidance value shown next to the slider equals the guidance_scale
\* start_generation would submit.
C38_GuidanceLabelMatches ==
    controls["image"].guidance_value_label = settings("image").guidance_scale

\* C39: a close that is accepted leaves the stop flag of every worker running
\* in the text tab and in the image tab set; a step that does not accept a
\* close, the declined close included, changes no stop flag.
C39_CloseStopsOnlyWhenAccepted ==
    [][/\ (~closed /\ closed') =>
              \A t \in Tabs, s \in Slots :
                  worker[t][s].pc \in RunPcs =>
                      worker'[t][s].stop /\ worker'[t][s].pc = worker[t][s].pc
       /\ closed' = closed =>
              \A t \in Tabs, s \in Slots :
                  worker'[t][s].stop = worker[t][s].stop]_vars

\* the window was closed while the jobs of both tabs were running
C39_Witness ==
    /\ closed
    /\ \A t \in Tabs :
           /\ generation_worker[t] # 0
           /\ worker[t][generation_worker[t]].stop
           /\ worker[t][generation_worker[t]].stop_pc \in RunPcs

====
